---- MODULE Spec2Model ----
(***************************************************************************)
(* Model of the vision-agent-tools wrappers:                               *)
(*   - Owlv2 (vision_agent_tools/models/owlv2.py): construction, to(),     *)
(*     __call__ with its argument validation, the image branch, the video  *)
(*     loop and __run_inference;                                           *)
(*   - DepthEstimation (vision_agent_tools/tools/depth_estimation.py):     *)
(*     construction with its checkpoint cache, and __call__.               *)
(*                                                                         *)
(* Numbers.  Scores and confidences are in tenths (0..10 stands for        *)
(* 0.0..1.0).  Boxes decoded by the network are normalised corner boxes in *)
(* thousandths of the image side; pixel coordinates are in thousandths of  *)
(* a pixel, so rounding to 2 decimals is rounding to a multiple of 10.     *)
(***************************************************************************)
EXTENDS Integers, Sequences, FiniteSets, TLC

VARIABLES
    model_config,   \* Owlv2.model_config: [device, confidence]
    model_device,   \* the device the Owlv2 network resides on (self._model)
    pc,             \* position of Owlv2.__call__: "idle", "loop", "done"
    args,           \* arguments of the current / last Owlv2.__call__
    pending,        \* frames the call still has to run inference on
    inferences,     \* the list `inferences` built by Owlv2.__call__
    status,         \* outcome of the current / last Owlv2.__call__
    procCalls,      \* calls to self._processor(...) made by this invocation
    fwdLog,         \* forward passes of this invocation: <<inputs device, model device>>
    dirExists,      \* DepthEstimation: CHECKPOINT_DIR exists on disk
    fileExists,     \* DepthEstimation: the checkpoint file exists in the cache
    constructions,  \* DepthEstimation: log of constructions, one record each
    depthArg,       \* DepthEstimation.__call__: kind of the last argument
    depthStatus,    \* DepthEstimation.__call__: outcome of the last call
    inferCalls      \* DepthEstimation.__call__: infer_image calls of the last call

owlVars   == <<model_config, model_device, pc, args, pending, inferences,
               status, procCalls, fwdLog>>
depthVars == <<dirExists, fileExists, constructions, depthArg, depthStatus,
               inferCalls>>
vars      == <<model_config, model_device, pc, args, pending, inferences,
               status, procCalls, fwdLog, dirExists, fileExists,
               constructions, depthArg, depthStatus, inferCalls>>

(***************************************************************************)
(* Bounds.                                                                 *)
(***************************************************************************)
MaxPrompts == 2
MaxFrames == 2
MaxConstructions == 4

(***************************************************************************)
(* Values.                                                                 *)
(***************************************************************************)
\* Optional values: None is the empty tuple, a supplied value x is <<x>>.
None == <<>>
Some(x) == <<x>>

\* Device enum of shared_types, as used by OWLV2Config.device and Owlv2.to
\* (two of its values are enough to tell one device from another).
Devices == {"cpu", "cuda"}

\* OWLV2Config.confidence: ge=0.0, le=1.0, default 0.1 (in tenths).
DefaultConfidence == 1
Confidences == {DefaultConfidence, 5}

PromptTexts == {"car", "screw"}
PromptLists == UNION {[1..n -> PromptTexts] : n \in 0..MaxPrompts}

\* The images the tool is called on.  An image stands for its pixel data:
\* its size (width, height) and what the network decodes from it, one entry
\* per candidate box: score, class seed, normalised corner box (thousandths).
Images == {"cereal", "car"}

ImageSize(image) ==
    CASE image = "cereal" -> <<4, 3>>
      [] image = "car"    -> <<3, 4>>

Decoded(image) ==
    CASE image = "cereal" ->
            << [score |-> 0, cls |-> 0, box |-> <<100, 100, 500, 500>>],
               [score |-> 1, cls |-> 1, box |-> <<200, 200, 600, 600>>] >>
      [] image = "car" ->
            << [score |-> 9, cls |-> 0, box |-> <<58, 333, 970, 1000>>],
               [score |-> 8, cls |-> 1, box |-> <<-50, 200, 1100, 900>>],
               [score |-> 6, cls |-> 0, box |-> <<60, 330, 975, 990>>],
               [score |-> 5, cls |-> 1, box |-> <<335, 111, 667, 1200>>] >>

Videos == UNION {[1..n -> Images] : n \in 0..MaxFrames}

(***************************************************************************)
(* Owlv2.__run_inference and what it calls.                                *)
(***************************************************************************)

\* self._model(**inputs): the raw detections of one image for the given
\* text queries.  The label of a detection is an index into the queries of
\* the image (texts[0]), 0-based.
Forward(image, texts) ==
    LET raw == Decoded(image)
        n   == Len(texts[1])
    IN  [j \in 1..Len(raw) |->
            [score |-> raw[j].score,
             label |-> raw[j].cls % n,
             box   |-> raw[j].box]]

\* target_sizes = torch.Tensor([image.size[::-1]]): (height, width).
TargetSizeWH(image) == ImageSize(image)
TargetSize(image) == <<ImageSize(image)[2], ImageSize(image)[1]>>

\* Scaling of a normalised corner box to pixels, target = (height, width).
ScaleBox(box, target) ==
    <<box[1] * target[2], box[2] * target[1],
      box[3] * target[2], box[4] * target[1]>>

\* self._processor.post_process_object_detection(outputs, threshold,
\* target_sizes): keeps the detections whose score exceeds the threshold,
\* in order, with their boxes scaled to the target size.
RECURSIVE PostProcess(_, _, _)
PostProcess(outputs, threshold, target) ==
    IF outputs = <<>> THEN <<>>
    ELSE LET d    == Head(outputs)
             rest == PostProcess(Tail(outputs), threshold, target)
         IN  IF d.score > threshold
             THEN <<[score |-> d.score, label |-> d.label,
                     box |-> ScaleBox(d.box, target)]>> \o rest
             ELSE rest

\* round(x, 2) on a coordinate in thousandths: nearest multiple of 10,
\* a tie going to the even hundredth.
Round2(x) ==
    LET q == x \div 10
        r == x % 10
    IN  IF r < 5 THEN q * 10
        ELSE IF r > 5 THEN (q + 1) * 10
        ELSE IF q % 2 = 0 THEN q * 10 ELSE (q + 1) * 10

\* texts[i][label.item()], i and label 0-based.
LabelTextFirst(texts, i, label) == texts[i + 1][1]
LabelText(texts, i, label) == texts[i + 1][label + 1]

\* The list of Owlv2InferenceData that __run_inference returns.
RunInferenceDefaultThreshold(image, texts, confidence) ==
    LET results == PostProcess(Forward(image, texts), DefaultConfidence,
                               TargetSize(image))
    IN  [j \in 1..Len(results) |->
            [label |-> LabelText(texts, 0, results[j].label),
             score |-> results[j].score,
             bbox  |-> [c \in 1..4 |-> Round2(results[j].box[c])]]]
RunInferenceAsDict(image, texts, confidence) ==
    LET results == PostProcess(Forward(image, texts), confidence,
                               TargetSize(image))
    IN  [bboxes |-> [j \in 1..Len(results) |->
                        [c \in 1..4 |-> Round2(results[j].box[c])]],
         labels |-> [j \in 1..Len(results) |->
                        LabelText(texts, 0, results[j].label)]]
RunInference(image, texts, confidence) ==
    LET results == PostProcess(Forward(image, texts), confidence,
                               TargetSize(image))
    IN  [j \in 1..Len(results) |->
            [label |-> LabelText(texts, 0, results[j].label),
             score |-> results[j].score,
             bbox  |-> [c \in 1..4 |-> Round2(results[j].box[c])]]]

(***************************************************************************)
(* Owlv2.__call__.                                                         *)
(***************************************************************************)

\* The two argument checks at the head of __call__.
ArgErrorNeitherOnly(image, video) ==
    IF image = None /\ video = None THEN "ValueError" ELSE "none"
ArgError(image, video) ==
    IF image = None /\ video = None THEN "ValueError"
    ELSE IF image # None /\ video # None THEN "ValueError"
    ELSE "none"

\* The frames the body of __call__ runs inference on and returns results
\* for: the image, or every frame of the video in order.
FramesReversed(image, video) ==
    IF video # None
    THEN [k \in 1..Len(video[1]) |-> video[1][Len(video[1]) + 1 - k]]
    ELSE <<image[1]>>
Frames(image, video) ==
    IF video # None THEN video[1] ELSE <<image[1]>>

\* Binding of the call's arguments to the signature
\* (self, prompts, image=None, video=None): any other keyword is rejected
\* by the interpreter before the body runs.
BindError(kwargs) ==
    IF kwargs \subseteq {"prompts", "image", "video"} THEN "none"
    ELSE "TypeError"

\* No Owlv2.__call__ has been made yet.
OwlIdle ==
    /\ pc = "idle"
    /\ args = [prompts |-> <<>>, image |-> None, video |-> None, nms |-> None]
    /\ pending = <<>>
    /\ inferences = <<>>
    /\ status = "none"
    /\ procCalls = 0
    /\ fwdLog = <<>>

\* No DepthEstimation has been constructed or called yet.
DepthIdle ==
    /\ constructions = <<>>
    /\ depthArg = "none"
    /\ depthStatus = "none"
    /\ inferCalls = 0

\* Owlv2.__init__: the configuration is the one given (or the default), and
\* the network is moved to model_config.device.
Init ==
    /\ model_config \in [device : Devices, confidence : Confidences]
    /\ model_device = model_config.device
    /\ OwlIdle
    /\ dirExists = FALSE
    /\ fileExists = FALSE
    /\ DepthIdle

\* Owlv2.to(device): moves the network, leaves model_config alone.
To(device) ==
    /\ pc # "loop"
    /\ model_device' = device
    /\ UNCHANGED <<model_config, pc, args, pending, inferences, status,
                   procCalls, fwdLog>>
    /\ UNCHANGED depthVars

\* Entry of Owlv2.__call__: argument binding, then the two checks, then the
\* set-up of the list of results.
Call(prompts, image, video, nms) ==
    /\ pc # "loop"
    /\ args' = [prompts |-> prompts, image |-> image, video |-> video,
                nms |-> nms]
    /\ procCalls' = 0
    /\ fwdLog' = <<>>
    /\ inferences' = <<>>
    /\ LET kwargs == {"prompts"}
                       \cup (IF image # None THEN {"image"} ELSE {})
                       \cup (IF video # None THEN {"video"} ELSE {})
                       \cup (IF nms # None THEN {"nms_threshold"} ELSE {})
       IN  IF BindError(kwargs) # "none"
           THEN /\ status' = BindError(kwargs)
                /\ pending' = <<>>
                /\ pc' = "done"
           ELSE IF ArgError(image, video) # "none"
           THEN /\ status' = ArgError(image, video)
                /\ pending' = <<>>
                /\ pc' = "done"
           ELSE /\ status' = "running"
                /\ pending' = Frames(image, video)
                /\ pc' = "loop"
    /\ UNCHANGED <<model_config, model_device>>
    /\ UNCHANGED depthVars

\* One __run_inference of the call, on the image or on the next frame.
\* The processor is called first and sends its tensors to
\* model_config.device; the forward pass needs them on the network's device
\* and raises otherwise.  An empty prompt list leaves the processor without
\* a text query, and the library call fails.
RunFrame ==
    /\ pc = "loop"
    /\ pending # <<>>
    /\ procCalls' = procCalls + 1
    /\ LET texts == <<args.prompts>>
           image == Head(pending)
       IN  IF args.prompts = <<>>
           THEN /\ status' = "LibraryError"
                /\ pc' = "done"
                /\ UNCHANGED <<fwdLog, inferences, pending>>
           ELSE /\ fwdLog' = Append(fwdLog, <<model_config.device, model_device>>)
                /\ IF model_config.device # model_device
                   THEN /\ status' = "RuntimeError"
                        /\ pc' = "done"
                        /\ UNCHANGED <<inferences, pending>>
                   ELSE /\ inferences' = Append(inferences,
                               RunInference(image, texts, model_config.confidence))
                        /\ pending' = Tail(pending)
                        /\ UNCHANGED <<status, pc>>
    /\ UNCHANGED <<model_config, model_device, args>>
    /\ UNCHANGED depthVars

\* return inferences
Return ==
    /\ pc = "loop"
    /\ pending = <<>>
    /\ status' = "ok"
    /\ pc' = "done"
    /\ UNCHANGED <<model_config, model_device, args, pending, inferences,
                   procCalls, fwdLog>>
    /\ UNCHANGED depthVars

OptImages == {None} \cup {Some(i) : i \in Images}
OptVideos == {None} \cup {Some(v) : v \in Videos}
OptNms    == {None, Some(1)}

Next ==
    \/ \E device \in Devices : To(device)
    \/ \E prompts \in PromptLists, image \in OptImages,
          video \in OptVideos, nms \in OptNms :
            Call(prompts, image, video, nms)
    \/ RunFrame
    \/ Return

Spec == Init /\ [][Next]_vars

(***************************************************************************)
(* DepthEstimation.                                                        *)
(***************************************************************************)

\* if not osp.exists(CHECKPOINT_DIR): os.makedirs(CHECKPOINT_DIR)
EnsureDirNoCreate(exists) == exists
EnsureDir(exists) == IF ~exists THEN TRUE ELSE exists

\* utils.download(url, path): fetches the file to `path` unless it is
\* already there; a failed fetch leaves no file and raises.
Download(cached, netOk) ==
    IF cached THEN [fetched |-> FALSE, wrote |-> FALSE, file |-> TRUE, ok |-> TRUE]
    ELSE IF netOk THEN [fetched |-> TRUE, wrote |-> TRUE, file |-> TRUE, ok |-> TRUE]
    ELSE [fetched |-> TRUE, wrote |-> FALSE, file |-> FALSE, ok |-> FALSE]

\* The type dispatch of DepthEstimation.__call__ on its argument.
ArgKinds == {"str", "PIL", "ndarray", "int", "NoneType"}
DepthArgErrorStrOnly(kind) ==
    IF kind = "str" THEN "none" ELSE "ValueError"
DepthArgError(kind) ==
    IF kind = "str" THEN "none"
    ELSE IF kind = "PIL" THEN "none"
    ELSE "ValueError"

\* The disk before the first construction of this process: the cache may be
\* left over from an earlier one.
InitDepth ==
    /\ model_config = [device |-> "cpu", confidence |-> DefaultConfidence]
    /\ model_device = model_config.device
    /\ OwlIdle
    /\ dirExists \in BOOLEAN
    /\ fileExists \in BOOLEAN
    /\ fileExists => dirExists
    /\ DepthIdle

\* DepthEstimation.__init__; netOk: whether a fetch of the checkpoint would
\* succeed.  A failed download makes the construction fail.
Construct(netOk) ==
    /\ Len(constructions) < MaxConstructions
    /\ LET dir == EnsureDir(dirExists)
           d   == Download(fileExists, netOk)
       IN  /\ dirExists' = dir
           /\ fileExists' = d.file
           /\ constructions' = Append(constructions,
                   [cachedBefore |-> fileExists, fetched |-> d.fetched,
                    wrote |-> d.wrote, dirAfter |-> dir, ok |-> d.ok])
    /\ UNCHANGED <<depthArg, depthStatus, inferCalls>>
    /\ UNCHANGED owlVars

\* Some construction has succeeded: there is an instance to call.
Constructed == \E k \in 1..Len(constructions) : constructions[k].ok

\* DepthEstimation.__call__(image); readable: whether cv2.imread can read
\* the path (it returns None otherwise, on which infer_image raises).
DepthCall(kind, readable) ==
    /\ Constructed
    /\ depthArg' = kind
    /\ IF DepthArgError(kind) # "none"
       THEN /\ depthStatus' = DepthArgError(kind)
            /\ inferCalls' = 0
       ELSE /\ inferCalls' = 1
            /\ depthStatus' = IF kind = "str" /\ ~readable
                               THEN "LibraryError" ELSE "ok"
    /\ UNCHANGED <<dirExists, fileExists, constructions>>
    /\ UNCHANGED owlVars

NextDepth ==
    \/ \E netOk \in BOOLEAN : Construct(netOk)
    \/ \E kind \in ArgKinds, readable \in BOOLEAN : DepthCall(kind, readable)

SpecDepth == InitDepth /\ [][NextDepth]_vars

(***************************************************************************)
(* Properties of Owlv2.                                                    *)
(***************************************************************************)

\* The call under way / last made, seen from its arguments.
Both      == args.image # None /\ args.video # None
Neither   == args.image = None /\ args.video = None
Returned  == status = "ok"
\* A forward pass of the call found the network off the inputs' device.
Mismatch  == \E i \in 1..Len(fwdLog) : fwdLog[i][1] # fwdLog[i][2]
\* The frames of a returned call, in input order.
InputFrames == IF args.video # None THEN args.video[1] ELSE <<args.image[1]>>
\* What the network decodes for frame k whose score exceeds / reaches c.
Above(image, c)   == SelectSeq(Decoded(image), LAMBDA d : d.score > c)
AtLeast(image, c) == SelectSeq(Decoded(image), LAMBDA d : d.score >= c)
\* Side of the image (in pixels) that bounds coordinate c of a bbox.
Side(image, c) == IF c \in {1, 3} THEN ImageSize(image)[1] ELSE ImageSize(image)[2]
Abs(x) == IF x < 0 THEN -x ELSE x
Range(f) == {f[x] : x \in DOMAIN f}

\* C1: a call (prompts, image, video) with both or neither of image and
\* video ends in ValueError, with no processor call and no forward pass made
\* by that invocation.
C1_ExactlyOneOfImageVideo ==
    (status # "none" /\ args.nms = None /\ (Both \/ Neither)) =>
        /\ status = "ValueError"
        /\ pc = "done"
        /\ procCalls = 0
        /\ fwdLog = <<>>
        /\ inferences = <<>>

C1_Witness ==
    /\ status = "ValueError"
    /\ Both
    /\ args.nms = None
    /\ Len(args.prompts) = 2
    /\ Len(args.video[1]) = 2

\* C2: a returned call on a video of N frames has exactly N result lists,
\* the k-th being the per-image inference of the k-th frame; a returned call
\* on an image has exactly one result list, the inference of that image.
C2_OneResultPerFrameInOrder ==
    Returned =>
        /\ args.video # None => Len(inferences) = Len(args.video[1])
        /\ args.image # None => Len(inferences) = 1
        /\ Len(inferences) = procCalls
        /\ \A k \in 1..Len(inferences) :
              inferences[k] = RunInference(InputFrames[k], <<args.prompts>>,
                                           model_config.confidence)

C2_Witness ==
    /\ Returned
    /\ args.video # None
    /\ Len(args.video[1]) = 2
    /\ args.video[1][1] = "car"
    /\ args.video[1][2] = "cereal"
    /\ inferences[1] # inferences[2]

\* C3 as stated: the result list of every frame has one record per decoded
\* detection whose score is >= the configured confidence, none below it.
C3_Original ==
    Returned =>
        \A k \in 1..Len(inferences) :
            /\ Len(inferences[k]) =
                  Len(AtLeast(InputFrames[k], model_config.confidence))
            /\ \A j \in 1..Len(inferences[k]) :
                  inferences[k][j].score >= model_config.confidence

\* C3 amended: the result list of every frame has one record per decoded
\* detection whose score is strictly above the configured confidence, in
\* the order decoded; a detection whose score equals the confidence is
\* dropped, and no record has a score at or below it.
C3_StrictThreshold ==
    Returned =>
        \A k \in 1..Len(inferences) :
            LET kept == Above(InputFrames[k], model_config.confidence)
            IN  /\ Len(inferences[k]) = Len(kept)
                /\ \A j \in 1..Len(inferences[k]) :
                      /\ inferences[k][j].score = kept[j].score
                      /\ inferences[k][j].score > model_config.confidence

C3_Witness ==
    /\ Returned
    /\ model_config.confidence # DefaultConfidence
    /\ \E k \in 1..Len(inferences) :
          /\ \E d \in Range(Decoded(InputFrames[k])) :
                d.score = model_config.confidence
          /\ Len(inferences[k]) = 3

\* Intersection over union of two corner boxes above t tenths.
Max(a, b) == IF a > b THEN a ELSE b
Min(a, b) == IF a < b THEN a ELSE b
Area(b) == Max(0, b[3] - b[1]) * Max(0, b[4] - b[2])
Inter(a, b) ==
    Max(0, Min(a[3], b[3]) - Max(a[1], b[1]))
      * Max(0, Min(a[4], b[4]) - Max(a[2], b[2]))
IoUAbove(a, b, t) ==
    10 * Inter(a, b) > t * (Area(a) + Area(b) - Inter(a, b))

\* C4 as stated: a call that supplies nms_threshold (with prompts and one of
\* image and video) is accepted, and no frame's result holds two detections
\* of one label whose intersection over union is above the threshold.
C4_Original ==
    (pc = "done" /\ args.nms # None /\ ~Both /\ ~Neither
        /\ args.prompts # <<>> /\ ~Mismatch) =>
        /\ Returned
        /\ \A k \in 1..Len(inferences) :
              \A i, j \in 1..Len(inferences[k]) :
                  (i < j /\ inferences[k][i].label = inferences[k][j].label)
                    => ~IoUAbove(inferences[k][i].bbox, inferences[k][j].bbox,
                                 args.nms[1])

\* A finished single-image call on an image in which no detection passes
\* the configured confidence for the queried prompts.
EmptyImageCall ==
    /\ pc = "done"
    /\ args.nms = None
    /\ args.image # None
    /\ args.video = None
    /\ args.prompts # <<>>
    /\ Above(args.image[1], model_config.confidence) = <<>>

C6_Original ==
    Returned =>
        \A k \in 1..Len(inferences) :
            \A j \in 1..Len(inferences[k]) :
                \A c \in 1..4 :
                    /\ inferences[k][j].bbox[c] >= 0
                    /\ inferences[k][j].bbox[c]
                          <= 1000 * Side(InputFrames[k], c)

\* C6 amended: every returned bbox is the decoded box scaled to the image
\* (x by its width, y by its height) and rounded to 2 decimals, unclamped:
\* each coordinate is a whole number of hundredths within 0.005 of the
\* decoded one, and lies within the image whenever the decoded one does.
C6_RoundedDecodedBox ==
    Returned =>
        \A k \in 1..Len(inferences) :
            LET kept == Above(InputFrames[k], model_config.confidence)
            IN  \A j \in 1..Len(inferences[k]) :
                  \A c \in 1..4 :
                    LET side == Side(InputFrames[k], c)
                        dec  == kept[j].box[c] * side
                        out  == inferences[k][j].bbox[c]
                    IN  /\ out % 10 = 0
                        /\ Abs(out - dec) <= 5
                        /\ (dec >= 0 /\ dec <= 1000 * side)
                              => (out >= 0 /\ out <= 1000 * side)

C6_Witness ==
    /\ Returned
    /\ \E k \in 1..Len(inferences) :
          /\ InputFrames[k] = "car"
          /\ Len(inferences[k]) >= 2
          /\ inferences[k][1].bbox = <<170, 1330, 2910, 4000>>
          /\ inferences[k][2].bbox[1] < 0

C10_Original ==
    \A i \in 1..Len(fwdLog) : fwdLog[i][1] = fwdLog[i][2]

(***************************************************************************)
(* Properties of DepthEstimation.                                          *)
(***************************************************************************)

\* C8: a call whose argument is neither a str nor a PIL image ends in
\* ValueError without the depth model being invoked; a call with a str or a
\* PIL image raises no ValueError and invokes the model exactly once.
C8_DepthArgumentValidation ==
    depthStatus # "none" =>
        /\ depthArg \notin {"str", "PIL"} =>
              (depthStatus = "ValueError" /\ inferCalls = 0)
        /\ depthArg \in {"str", "PIL"} =>
              (depthStatus # "ValueError" /\ inferCalls = 1)

C8_Witness ==
    /\ depthArg = "PIL"
    /\ depthStatus = "ok"
    /\ inferCalls = 1

\* C9: a construction fetches the checkpoint only when the cache file is
\* absent; one that finds it present fetches and writes nothing; after a
\* successful construction every later one reuses the cached file; every
\* construction leaves the cache directory existing.
C9_CheckpointCacheIdempotent ==
    /\ constructions # <<>> => dirExists
    /\ \A k \in 1..Len(constructions) :
          /\ constructions[k].dirAfter
          /\ constructions[k].fetched = ~constructions[k].cachedBefore
          /\ constructions[k].cachedBefore => ~constructions[k].wrote
          /\ \A m \in 1..Len(constructions) :
                (k < m /\ constructions[k].ok) =>
                    /\ constructions[m].cachedBefore
                    /\ ~constructions[m].fetched
                    /\ ~constructions[m].wrote
                    /\ constructions[m].ok
    /\ (\E k \in 1..Len(constructions) : constructions[k].ok) => fileExists

C9_Witness ==
    /\ Len(constructions) >= 3
    /\ ~constructions[1].ok
    /\ constructions[2].fetched
    /\ constructions[2].ok
    /\ ~constructions[3].fetched
====
